---- MODULE Spec2Model ----
(***************************************************************************)
(* kanaval: validation of the regions of a kana analysis state file        *)
(* (inst/include/kanaval/inputs.hpp, pca.hpp, combine_embeddings.hpp,      *)
(* custom_selections.hpp).                                                 *)
(*                                                                         *)
(* One behaviour of Spec is one call of one stage's validate.  The         *)
(* container behind `handle` is read-only.  In inputs::validate every      *)
(* dataset is read at most once, so the value a read returns is drawn, at  *)
(* the step that reads it, from the bounded domains below.  For the later  *)
(* stages the entries whose presence matters whether or not they are read  *)
(* are fixed by Init in `region`, and `reads` records the entries opened.  *)
(* The variables are the arguments and locals of the validators, under the *)
(* names the source gives them; a local is reset when the block that       *)
(* declares it ends.                                                       *)
(***************************************************************************)
EXTENDS Integers, Sequences, FiniteSets

\* ------------------------------------------------------------------ bounds

\* Largest number of children of `parameters/files`.
MaxFiles == 3
\* Largest length of an array `format`, `sample_groups` or `sample_names`.
MaxMatrices == 2
\* Largest feature count, and largest length of a row-identity array.
MaxFeatures == 2

\* ----------------------------------------------------- version boundaries

V1_1 == 1001000
V1_2 == 1002000
V2_0 == 2000000

\* One version below the lowest boundary, each boundary, and one above.
Versions == {1000000, V1_1, V1_2, V2_0, 2001000}

\* ------------------------------------------------------- domains of reads

FormatNames == {"MatrixMarket", "10X", "H5AD", "custom"}
FileTypes == {"mtx", "genes", "annotations", "h5"}
SampleNames == {"a", "b", "c"}
ModalityNames == {"RNA", "ADT"}

\* (offset, size) of an embedded file, as stored in its entry.
ByteRanges == {<<0, 100>>, <<100, 200>>, <<300, 50>>, <<301, 50>>, <<350, 0>>}

\* validate_parameters consults `version` at line 74 alone; embedded files are
\* read at the oldest and at the newest version.
EmbeddedVersions == {1000000, 2001000}

\* Stored `num_cells`, and the second entry of `dimensions`.
CellCounts == {-1, 0, 1}

SeqsUpTo(S, n) == UNION {[1..k -> S] : k \in 0..n}

\* ------------------------------------------------------------------ state

VARIABLES
    version,        \* argument of validate
    embedded,       \* argument of validate
    pc,             \* position in validate
    err,            \* the exception that left validate: context frames, outermost first
    ndims,          \* rank of the `format` dataset: 0 for a scalar
    formats,        \* validate_parameters: per-matrix format
    multi_matrix,   \* ParamDump
    num_matrices,   \* ParamDump
    multi_sample,   \* ParamDump
    nfiles,         \* child count of `files`
    runs,           \* files per matrix
    names,          \* `sample_names`, alive inside the multi-matrix block
    sofar,          \* global position of the next file
    r,              \* 1-based index of the current run
    types,          \* file types of the current run
    bytes,          \* (offset, size) of the files read so far
    modalities,     \* Details
    num_features,   \* Details
    num_cells,      \* Details
    num_samples,    \* Details
    stored_samples, \* what the `num_samples` read found: <<>> when absent, <<v>> otherwise
    m,              \* 1-based index of the modality whose identities are checked
    idname,         \* name of the row-identity dataset last read
    idx,            \* contents of the row-identity dataset last read
    ihandle,        \* inputs validate_results: the `identities` group is open
    stage,          \* the validate that is called
    region,         \* later stages: the entries of the stage's region of the container
    reads,          \* later stages: names of the entries opened so far
    npcs,           \* pca: requested number of PCs
    bmethod,        \* pca: block method
    obs_pcs,        \* pca: observed number of PCs
    total_dims,     \* combine_embeddings: argument of validate
    collected,      \* custom_selections: selection names returned by validate_parameters
    sel,            \* custom_selections: 1-based index of the current selection
    a,              \* custom_selections: 1-based index of the current modality
    involved,       \* custom_selections: indices of the selection last loaded
    stats           \* custom_selections: statistics of the current group opened so far

paramVars == <<ndims, formats, multi_matrix, num_matrices, multi_sample, nfiles, runs,
               names, sofar, r, types, bytes>>
resultVars == <<modalities, num_features, num_cells, num_samples, stored_samples,
                m, idname, idx>>
stageVars == <<stage, region, reads, npcs, bmethod, obs_pcs, total_dims, collected,
               sel, a, involved, stats>>
vars == <<version, embedded, pc, err, paramVars, resultVars, ihandle, stageVars>>

\* ------------------------------------------------------------ error chain

Frame(ctx, arg) == [ctx |-> ctx, arg |-> arg]
Msg(text) == Frame(text, "")

ParamsCtx == Msg("failed to retrieve parameters from 'inputs'")
ResultsCtx == Msg("failed to retrieve results from 'inputs'")

\* std::to_string of a file position.
Digits == <<"0", "1", "2", "3", "4", "5", "6", "7", "8", "9">>
ToString(n) == IF n < 10 THEN Digits[n + 1] ELSE Digits[(n \div 10) + 1]

FileCtx(n) == Frame("failed to retrieve information for file", ToString(n))

\* ---------------------------------------------------------------- helpers

\* Line 94 summing all but the last entry.
RECURSIVE Accumulate_DropLast(_)
Accumulate_DropLast(s) ==
    IF Len(s) <= 1 THEN 0 ELSE Head(s) + Accumulate_DropLast(Tail(s))

RECURSIVE Accumulate(_)
Accumulate(s) == IF s = <<>> THEN 0 ELSE Head(s) + Accumulate(Tail(s))

\* The scan of `names` against the set `stuff`: TRUE when a name repeats.
RECURSIVE DuplicatedName(_, _)
DuplicatedName(s, stuff) ==
    IF s = <<>> THEN FALSE
    ELSE IF Head(s) \in stuff THEN TRUE
    ELSE DuplicatedName(Tail(s), stuff \cup {Head(s)})

Count(s, t) == Cardinality({i \in 1..Len(s) : s[i] = t})

MatrixMarketTypes == {"mtx", "genes", "annotations"}

\* Lines 160-162 asking for at least one 'mtx' file instead of exactly one.
TypeSetError_SomeMtx(curf, ty) ==
    IF curf = "MatrixMarket" THEN
        IF \E i \in 1..Len(ty) : ty[i] \notin MatrixMarketTypes
            THEN "unknown file type when format is 'MatrixMarket'"
        ELSE IF Count(ty, "mtx") < 1
            THEN "expected exactly one 'mtx' file when format is 'MatrixMarket'"
        ELSE IF Count(ty, "genes") > 1
            THEN "expected no more than one 'genes' file when format is 'MatrixMarket'"
        ELSE IF Count(ty, "annotations") > 1
            THEN "expected no more than one 'annotation' file when format is 'MatrixMarket'"
        ELSE ""
    ELSE IF curf = "10X" THEN
        IF Len(ty) # 1 \/ ty[1] # "h5"
            THEN "expected exactly one 'h5' file when format is '10X'"
        ELSE ""
    ELSE IF curf = "H5AD" THEN
        IF Len(ty) # 1 \/ ty[1] # "h5"
            THEN "expected exactly one 'h5' file when format is 'H5AD'"
        ELSE ""
    ELSE ""

\* Lines 172-175 checking the file count of an 'H5AD' run but not its type.
TypeSetError_H5ADAnyType(curf, ty) ==
    IF curf = "MatrixMarket" THEN
        IF \E i \in 1..Len(ty) : ty[i] \notin MatrixMarketTypes
            THEN "unknown file type when format is 'MatrixMarket'"
        ELSE IF Count(ty, "mtx") # 1
            THEN "expected exactly one 'mtx' file when format is 'MatrixMarket'"
        ELSE IF Count(ty, "genes") > 1
            THEN "expected no more than one 'genes' file when format is 'MatrixMarket'"
        ELSE IF Count(ty, "annotations") > 1
            THEN "expected no more than one 'annotation' file when format is 'MatrixMarket'"
        ELSE ""
    ELSE IF curf = "10X" THEN
        IF Len(ty) # 1 \/ ty[1] # "h5"
            THEN "expected exactly one 'h5' file when format is '10X'"
        ELSE ""
    ELSE IF curf = "H5AD" THEN
        IF Len(ty) # 1
            THEN "expected exactly one 'h5' file when format is 'H5AD'"
        ELSE ""
    ELSE ""

\* The type-set check of one run: "" when it passes, else the message thrown.
TypeSetError(curf, ty) ==
    IF curf = "MatrixMarket" THEN
        IF \E i \in 1..Len(ty) : ty[i] \notin MatrixMarketTypes
            THEN "unknown file type when format is 'MatrixMarket'"
        ELSE IF Count(ty, "mtx") # 1
            THEN "expected exactly one 'mtx' file when format is 'MatrixMarket'"
        ELSE IF Count(ty, "genes") > 1
            THEN "expected no more than one 'genes' file when format is 'MatrixMarket'"
        ELSE IF Count(ty, "annotations") > 1
            THEN "expected no more than one 'annotation' file when format is 'MatrixMarket'"
        ELSE ""
    ELSE IF curf = "10X" THEN
        IF Len(ty) # 1 \/ ty[1] # "h5"
            THEN "expected exactly one 'h5' file when format is '10X'"
        ELSE ""
    ELSE IF curf = "H5AD" THEN
        IF Len(ty) # 1 \/ ty[1] # "h5"
            THEN "expected exactly one 'h5' file when format is 'H5AD'"
        ELSE ""
    ELSE ""

\* Line 183 throwing on an overlap alone: a gap passes.
RECURSIVE SortedContiguous_OverlapOnly(_, _)
SortedContiguous_OverlapOnly(b, end) ==
    IF b = <<>> THEN TRUE
    ELSE IF Head(b)[1] < end THEN FALSE
    ELSE SortedContiguous_OverlapOnly(Tail(b), Head(b)[1] + Head(b)[2])

\* Line 181 starting the running end at the first offset instead of 0.
RECURSIVE SortedContiguous_AnyStart(_, _)
SortedContiguous_AnyStart(b, end) ==
    IF b = <<>> THEN TRUE
    ELSE IF Len(b) > 1 /\ b[2][1] # Head(b)[1] + Head(b)[2] THEN FALSE
    ELSE SortedContiguous_AnyStart(Tail(b), end)

\* The scan of `bytes` with the running end `sofar`: TRUE when every offset is
\* the end of the file before it.
RECURSIVE SortedContiguous(_, _)
SortedContiguous(b, end) ==
    IF b = <<>> THEN TRUE
    ELSE IF Head(b)[1] # end THEN FALSE
    ELSE SortedContiguous(Tail(b), end + Head(b)[2])

\* The ranges the next embedded entry is drawn from.  The scan of lines 182-187
\* throws at the first range that breaks the chain, whatever follows it: the
\* entries after a break are drawn as <<0, 100>>.
RangeChoices(b) == IF SortedContiguous(b, 0) THEN ByteRanges ELSE {<<0, 100>>}

\* ------------------------------------------------------------------- Init

\* No later stage is running: its locals hold nothing.
NoStageLocals ==
    /\ reads = {}
    /\ npcs = 0
    /\ bmethod = ""
    /\ obs_pcs = 0
    /\ collected = <<>>
    /\ sel = 1
    /\ a = 1
    /\ involved = <<>>
    /\ stats = <<>>

\* A call of inputs::validate.
InputsInit ==
    /\ stage = "inputs"
    /\ region = <<>>
    /\ total_dims = 0
    /\ ihandle = FALSE
    /\ NoStageLocals
    /\ version \in Versions
    /\ embedded \in BOOLEAN
    /\ embedded => version \in EmbeddedVersions
    /\ pc = "format"
    /\ err = <<>>
    /\ ndims = 0
    /\ formats = <<>>
    /\ multi_matrix = FALSE
    /\ num_matrices = 0
    /\ multi_sample = FALSE
    /\ nfiles = 0
    /\ runs = <<>>
    /\ names = <<>>
    /\ sofar = 0
    /\ r = 1
    /\ types = <<>>
    /\ bytes = <<>>
    /\ modalities = <<>>
    /\ num_features = <<>>
    /\ num_cells = 0
    /\ num_samples = 0
    /\ stored_samples = <<>>
    /\ m = 1
    /\ idname = ""
    /\ idx = <<>>


\* ------------------------------------------------- validate_parameters

\* An exception thrown in validate_parameters, as it leaves validate.
ThrowParams(frames) ==
    /\ pc' = "failed"
    /\ err' = <<ParamsCtx>> \o frames

\* Line 74 with the boundary version on the wrong side.
ArrayFormatAllowed_After11 == version > V1_1

\* Line 74: an array `format` is read from version 1.1 on.
ArrayFormatAllowed == ~(version < V1_1)

\* Lines 65-81: `format` is a scalar or, from version 1.1, an array.
ReadFormat ==
    /\ pc = "format"
    /\ \/ \E f \in FormatNames :
            /\ ndims' = 0
            /\ formats' = <<f>>
            /\ multi_matrix' = FALSE
            /\ num_matrices' = 1
            /\ pc' = "files"
            /\ err' = err
       \/ \E fs \in SeqsUpTo(FormatNames, MaxMatrices) :
            /\ ndims' = 1
            /\ IF ~ArrayFormatAllowed
               THEN /\ ThrowParams(<<Msg("'format' should be a scalar string in version 1.0")>>)
                    /\ UNCHANGED <<formats, multi_matrix, num_matrices>>
               ELSE /\ formats' = fs
                    /\ multi_matrix' = TRUE
                    /\ num_matrices' = Len(fs)
                    /\ pc' = "files"
                    /\ err' = err
    /\ UNCHANGED <<version, embedded, multi_sample, nfiles, runs, names, sofar, r,
                   types, bytes, resultVars>>
    /\ UNCHANGED <<ihandle, stageVars>>

\* Lines 83-84: the child count of `files`.
OpenFiles ==
    /\ pc = "files"
    /\ nfiles' \in 0..MaxFiles
    /\ pc' = IF multi_matrix THEN "sample_groups" ELSE "file"
    /\ runs' = IF multi_matrix THEN runs ELSE <<nfiles'>>
    /\ UNCHANGED <<version, embedded, err, ndims, formats, multi_matrix, num_matrices,
                   multi_sample, names, sofar, r, types, bytes, resultVars>>
    /\ UNCHANGED <<ihandle, stageVars>>

\* Lines 89-97: `sample_groups` against `format` and `files`.
LoadSampleGroups ==
    /\ pc = "sample_groups"
    /\ \E g \in SeqsUpTo(-1..MaxFiles, MaxMatrices) :
        /\ runs' = g
        /\ IF Len(g) # Len(formats)
           THEN ThrowParams(<<Msg("'sample_groups' and 'format' should have the same length")>>)
           ELSE IF Accumulate(g) # nfiles
           THEN ThrowParams(<<Msg("sum of 'sample_groups' is not equal to the length of 'files'")>>)
           ELSE pc' = "sample_names" /\ err' = err
    /\ UNCHANGED <<version, embedded, ndims, formats, multi_matrix, num_matrices,
                   multi_sample, nfiles, names, sofar, r, types, bytes, resultVars>>
    /\ UNCHANGED <<ihandle, stageVars>>

\* Lines 100-111: `sample_names` against `format`, and no name repeats.
CheckSampleNames ==
    /\ pc = "sample_names"
    /\ \E n \in SeqsUpTo(SampleNames, MaxMatrices) :
        /\ names' = n
        /\ IF Len(n) # Len(formats)
           THEN ThrowParams(<<Msg("'sample_names' and 'format' should have the same length")>>)
           ELSE IF DuplicatedName(n, {})
           THEN ThrowParams(<<Msg("duplicated sample name in 'sample_names'")>>)
           ELSE pc' = "names_checked" /\ err' = err
    /\ UNCHANGED <<version, embedded, ndims, formats, multi_matrix, num_matrices,
                   multi_sample, nfiles, runs, sofar, r, types, bytes, resultVars>>
    /\ UNCHANGED <<ihandle, stageVars>>

\* Lines 112-118: the multi-matrix block ends, and `names` with it.
EndSampleBlock ==
    /\ pc = "names_checked"
    /\ names' = <<>>
    /\ pc' = "file"
    /\ UNCHANGED <<version, embedded, err, ndims, formats, multi_matrix, num_matrices,
                   multi_sample, nfiles, runs, sofar, r, types, bytes, resultVars>>
    /\ UNCHANGED <<ihandle, stageVars>>

\* Line 123 with the run length included.
RunUnfinished_Inclusive == Len(types) <= runs[r]

\* Line 123: s < runs[r], with one type pushed per file of the run.
RunUnfinished == Len(types) < runs[r]

\* Lines 123-142: one file entry of the current run.  The entry named
\* to_string(sofar) is a child of `files` or not; the positions opened before
\* it were children, so it can be one only while sofar < nfiles.
ReadFile ==
    /\ pc = "file"
    /\ r <= Len(runs)
    /\ RunUnfinished
    /\ \/ /\ ThrowParams(<<FileCtx(sofar), Msg("missing or malformed entry")>>)
          /\ UNCHANGED <<types, bytes, sofar>>
       \/ /\ sofar < nfiles
          /\ \E t \in FileTypes :
                types' = Append(types, t)
          /\ IF embedded
             THEN \E b \in RangeChoices(bytes) : bytes' = Append(bytes, b)
             ELSE bytes' = bytes
          /\ sofar' = sofar + 1
          /\ UNCHANGED <<pc, err>>
    /\ UNCHANGED <<version, embedded, ndims, formats, multi_matrix, num_matrices,
                   multi_sample, nfiles, runs, names, r, resultVars>>
    /\ UNCHANGED <<ihandle, stageVars>>

\* Lines 144-177: the type-set check that ends a run; `types` ends with it.
CheckRunTypes ==
    /\ pc = "file"
    /\ r <= Len(runs)
    /\ ~RunUnfinished
    /\ IF TypeSetError(formats[r], types) # ""
       THEN /\ ThrowParams(<<Msg(TypeSetError(formats[r], types))>>)
            /\ UNCHANGED <<r, types>>
       ELSE /\ r' = r + 1
            /\ types' = <<>>
            /\ UNCHANGED <<pc, err>>
    /\ UNCHANGED <<version, embedded, ndims, formats, multi_matrix, num_matrices,
                   multi_sample, nfiles, runs, names, sofar, bytes, resultVars>>
    /\ UNCHANGED <<ihandle, stageVars>>

\* Lines 179-188: embedded byte ranges are sorted and contiguous.
CheckBytes ==
    /\ pc = "file"
    /\ r > Len(runs)
    /\ IF embedded /\ ~SortedContiguous(bytes, 0)
       THEN ThrowParams(<<Msg("offsets and sizes of 'files' are not sorted and contiguous")>>)
       ELSE pc' = "sample_factor" /\ err' = err
    /\ UNCHANGED <<version, embedded, paramVars, resultVars>>
    /\ UNCHANGED <<ihandle, stageVars>>

\* Lines 190-196: the optional `sample_factor`.
CheckSampleFactor ==
    /\ pc = "sample_factor"
    /\ \E exists \in BOOLEAN :
         multi_sample' = IF ~multi_matrix /\ exists THEN TRUE ELSE multi_matrix
    /\ pc' = "params_return"
    /\ UNCHANGED <<version, embedded, err, ndims, formats, multi_matrix, num_matrices,
                   nfiles, runs, names, sofar, r, types, bytes, resultVars>>
    /\ UNCHANGED <<ihandle, stageVars>>

\* Line 198 and lines 501-508: validate_parameters returns its ParamDump and
\* its locals end; validate calls validate_results.
ReturnParams ==
    /\ pc = "params_return"
    /\ pc' = "results"
    /\ ndims' = 0
    /\ formats' = <<>>
    /\ nfiles' = 0
    /\ runs' = <<>>
    /\ sofar' = 0
    /\ r' = 1
    /\ bytes' = <<>>
    /\ UNCHANGED <<version, embedded, err, multi_matrix, num_matrices, multi_sample,
                   names, types, resultVars>>
    /\ UNCHANGED <<ihandle, stageVars>>

\* --------------------------------------------------- validate_results

\* An exception thrown in validate_results, as it leaves validate.
ThrowResults(frames) ==
    /\ pc' = "failed"
    /\ err' = <<ResultsCtx>> \o frames

\* idx.size() != static_cast<size_t>(n): a negative n converts to a value no
\* vector length reaches.
SizeDiffers(len, n) == n < 0 \/ len # n

\* Lines 252-254 without the sign test.
RECURSIVE CheckUnique_Unsigned(_, _)
CheckUnique_Unsigned(s, used) ==
    IF s = <<>> THEN ""
    ELSE IF Head(s) \in used THEN "contains duplicate values"
    ELSE CheckUnique_Unsigned(Tail(s), used \cup {Head(s)})

\* The lambda check_unique, lines 249-260: "" when it passes, else what it
\* appends to msg in the exception it throws.
RECURSIVE CheckUnique(_, _)
CheckUnique(s, used) ==
    IF s = <<>> THEN ""
    ELSE IF Head(s) < 0 THEN "contains negative values"
    ELSE IF Head(s) \in used THEN "contains duplicate values"
    ELSE CheckUnique(Tail(s), used \cup {Head(s)})

\* Line 296 with the upper bound off by one.
RECURSIVE CheckPermutation_Inclusive(_, _, _)
CheckPermutation_Inclusive(s, size, used) ==
    IF s = <<>> THEN ""
    ELSE IF Head(s) < 0 \/ Head(s) > size THEN "'permutation' contains out-of-range values"
    ELSE IF Head(s) \in used THEN "duplicated index in 'permutation'"
    ELSE CheckPermutation_Inclusive(Tail(s), size, used \cup {Head(s)})

\* The scan of `perms` against the flags `used`, lines 295-303.
RECURSIVE CheckPermutation(_, _, _)
CheckPermutation(s, size, used) ==
    IF s = <<>> THEN ""
    ELSE IF Head(s) < 0 \/ Head(s) >= size THEN "'permutation' contains out-of-range values"
    ELSE IF Head(s) \in used THEN "duplicated index in 'permutation'"
    ELSE CheckPermutation(Tail(s), size, used \cup {Head(s)})

\* The row-identity arrays a container may hold.
IdArrays == SeqsUpTo(-1..MaxFeatures, MaxFeatures)

\* The `dimensions` arrays a container may hold: any length from 1 to 3.
DimensionArrays ==
    {<<f>> : f \in -1..MaxFeatures}
        \cup {<<f, c>> : f \in -1..MaxFeatures, c \in CellCounts}
        \cup {<<f, c, 0>> : f \in -1..MaxFeatures, c \in CellCounts}

\* The children of `num_features`: distinct modality names, in the order the
\* group enumerates them.
ModalityLists ==
    {s \in SeqsUpTo(ModalityNames, Cardinality(ModalityNames)) :
        \A i, j \in 1..Len(s) : i # j => s[i] # s[j]}

\* Lines 206-217: before version 2.0, `dimensions` holds both counts.
ReadDimensions ==
    /\ pc = "results"
    /\ version < V2_0
    /\ \E dims \in DimensionArrays :
         IF Len(dims) # 2
         THEN /\ ThrowResults(<<Msg("'dimensions' should be a dataset of length 2")>>)
              /\ modalities' = <<"RNA">>
              /\ UNCHANGED <<num_features, num_cells>>
         ELSE IF dims[1] < 0 \/ dims[2] < 0
         THEN /\ ThrowResults(<<Msg("'dimensions' should contain non-negative integers")>>)
              /\ modalities' = <<"RNA">>
              /\ UNCHANGED <<num_features, num_cells>>
         ELSE /\ modalities' = <<"RNA">>
              /\ num_features' = <<dims[1]>>
              /\ num_cells' = dims[2]
              /\ pc' = "num_samples"
              /\ err' = err
    /\ UNCHANGED <<version, embedded, paramVars, num_samples, stored_samples, m,
                   idname, idx>>
    /\ UNCHANGED <<ihandle, stageVars>>

\* Lines 218-232: from version 2.0, `num_cells` and one count per modality.
ReadNumFeatures ==
    /\ pc = "results"
    /\ version >= V2_0
    /\ num_cells' \in CellCounts
    /\ \E mods \in ModalityLists :
         IF Len(mods) = 0
         THEN /\ ThrowResults(<<Msg("number of modalities should be positive")>>)
              /\ UNCHANGED <<modalities, num_features>>
         ELSE /\ modalities' = mods
              /\ num_features' \in [1..Len(mods) -> -1..MaxFeatures]
              /\ pc' = "num_samples"
              /\ err' = err
    /\ UNCHANGED <<version, embedded, paramVars, num_samples, stored_samples, m,
                   idname, idx>>
    /\ UNCHANGED <<ihandle, stageVars>>

\* Line 244 without the test of multi_sample.
NumSamplesError_NoFactor(ns) ==
    IF multi_matrix
    THEN IF ns # num_matrices
         THEN "'num_samples' should be equal to the number of matrices"
         ELSE ""
    ELSE IF ns # 1
         THEN "'num_samples' should be 1 for single matrix inputs without 'sample_factor'"
         ELSE ""

\* Lines 239-247: "" when the sample count agrees with the parameters, else
\* the message thrown.
NumSamplesError(ns) ==
    IF multi_matrix
    THEN IF ns # num_matrices
         THEN "'num_samples' should be equal to the number of matrices"
         ELSE ""
    ELSE IF ~multi_sample /\ ns # 1
         THEN "'num_samples' should be 1 for single matrix inputs without 'sample_factor'"
         ELSE ""

\* Stored `num_samples`: absent, or one integer.
StoredSampleCounts == {<<>>} \cup {<<v>> : v \in -1..MaxMatrices}

\* Lines 234-247: the sample count, 1 unless `num_samples` is stored.
CheckNumSamples ==
    /\ pc = "num_samples"
    /\ stored_samples' \in StoredSampleCounts
    /\ num_samples' = IF stored_samples' = <<>> THEN 1 ELSE stored_samples'[1]
    /\ IF NumSamplesError(num_samples') # ""
       THEN ThrowResults(<<Msg(NumSamplesError(num_samples'))>>)
       ELSE pc' = "identities" /\ err' = err
    /\ UNCHANGED <<version, embedded, paramVars, modalities, num_features, num_cells,
                   m, idname, idx>>
    /\ UNCHANGED <<ihandle, stageVars>>

\* Lines 262-288 without the branch of line 272.
IdentityDataset_NoArrayBranch ==
    IF version >= V2_0 THEN modalities[m]
    ELSE IF multi_matrix THEN "indices"
    ELSE "permutation"

\* The dataset the row identities are read from, lines 262-288.
IdentityDataset ==
    IF version >= V2_0 THEN modalities[m]
    ELSE IF version >= V1_2 THEN "identities"
    ELSE IF multi_matrix THEN "indices"
    ELSE "permutation"

\* Number of row-identity datasets validate_results reads.
IdentityCount == IF version >= V2_0 THEN Len(modalities) ELSE 1

\* The checks on a row-identity array: "" when they pass, else the message.
IdentityError(ids) ==
    IF version >= V2_0 THEN
        IF SizeDiffers(Len(ids), num_features[m])
            THEN "'identities' for modality should have length equal to its number of features"
        ELSE CheckUnique(ids, {})
    ELSE IF version >= V1_2 THEN
        IF SizeDiffers(Len(ids), num_features[1])
            THEN "'identities' should have length equal to the number of genes"
        ELSE CheckUnique(ids, {})
    ELSE IF multi_matrix THEN
        IF SizeDiffers(Len(ids), num_features[1])
            THEN "'indices' should have length equal to the number of genes"
        ELSE CheckUnique(ids, {})
    ELSE
        IF SizeDiffers(Len(ids), num_features[1])
            THEN "'permutation' should have length equal to the number of genes"
        ELSE CheckPermutation(ids, Len(ids), {})

\* Lines 265-269, 273-277, 281-285, 288-303: one row-identity array is loaded
\* and checked; the load fails when the container holds no such array.
CheckIdentities ==
    /\ pc = "identities"
    /\ m <= IdentityCount
    /\ idname' = IdentityDataset
    /\ \/ /\ idx' = <<>>
          /\ ThrowResults(<<Msg("missing or malformed entry")>>)
       \/ \E ids \in IdArrays :
            /\ idx' = ids
            /\ IF IdentityError(ids) # ""
               THEN ThrowResults(<<Frame(IdentityError(ids), IdentityDataset)>>)
               ELSE pc' = "identities_checked" /\ err' = err
    /\ UNCHANGED <<version, embedded, paramVars, modalities, num_features,
                   num_cells, num_samples, stored_samples, m>>
    /\ ihandle' = (version >= V2_0)
    /\ UNCHANGED stageVars

\* Lines 270, 278, 286, 304: the block that declared the array ends.
EndIdentities ==
    /\ pc = "identities_checked"
    /\ m' = m + 1
    /\ idname' = ""
    /\ idx' = <<>>
    /\ pc' = "identities"
    /\ UNCHANGED <<version, embedded, err, paramVars, modalities, num_features,
                   num_cells, num_samples, stored_samples>>
    /\ UNCHANGED <<ihandle, stageVars>>

\* Lines 307 and 513: validate returns the Details.
ReturnDetails ==
    /\ pc = "identities"
    /\ m > IdentityCount
    /\ pc' = "done"
    /\ UNCHANGED <<version, embedded, err, paramVars, resultVars>>
    /\ UNCHANGED <<ihandle, stageVars>>

\* =====================================================================
\* pca::validate (pca.hpp)
\* =====================================================================

\* What a read of a scalar finds: nothing, or one stored value.
ScalarReads(S) == {<<>>} \cup {<<v>> : v \in S}

\* Shape of a stored matrix; <<>> when the container holds none by that name.
Shapes == {<<>>} \cup {<<rows, cols>> : rows \in 0..1, cols \in 1..2}

\* The entries of the `pca` group.
PcaRegions ==
    [num_hvgs : {<<0>>, <<1>>},
     num_pcs : ScalarReads({0, 2}),
     block_method : ScalarReads({"none", "regress", "mnn", "other"}),
     pcs : Shapes,
     var_exp : {<<1>>, <<2>>},
     corrected : Shapes]

\* The arguments of validate that a later stage does not take or use.
NoInputsLocals ==
    /\ embedded = FALSE
    /\ ndims = 0
    /\ formats = <<>>
    /\ multi_matrix = FALSE
    /\ num_matrices = 0
    /\ multi_sample = FALSE
    /\ nfiles = 0
    /\ runs = <<>>
    /\ names = <<>>
    /\ sofar = 0
    /\ r = 1
    /\ types = <<>>
    /\ bytes = <<>>
    /\ num_samples = 0
    /\ stored_samples = <<>>
    /\ m = 1
    /\ idname = ""
    /\ idx = <<>>
    /\ ihandle = FALSE

\* A call of pca::validate(handle, num_cells, version).
PcaInit ==
    /\ stage = "pca"
    /\ version \in Versions
    /\ num_cells \in CellCounts
    /\ region \in PcaRegions
    /\ modalities = <<>>
    /\ num_features = <<>>
    /\ total_dims = 0
    /\ pc = "pca_num_hvgs"
    /\ err = <<>>
    /\ NoInputsLocals
    /\ NoStageLocals

PcaParamsCtx == Msg("failed to retrieve parameters from 'pca'")
PcaResultsCtx == Msg("failed to retrieve results from 'pca'")

\* The exception is recorded and the phase goes on.
ThrowStage_Continue(ctx, frames) ==
    /\ pc' = pc
    /\ err' = <<ctx>> \o frames

\* An exception thrown in a phase of a later stage, as it leaves validate
\* under the context frame `ctx` of the phase.
ThrowStage(ctx, frames) ==
    /\ pc' = "failed"
    /\ err' = <<ctx>> \o frames

\* What the later stages leave alone: the arguments and the container.
StageFrame ==
    UNCHANGED <<version, embedded, paramVars, resultVars, ihandle, stage, region,
                total_dims>>

\* Lines 25-28: `num_hvgs` is positive.
PcaReadNumHvgs ==
    /\ pc = "pca_num_hvgs"
    /\ reads' = reads \cup {<<"parameters", "num_hvgs">>}
    /\ IF region.num_hvgs = <<>>
       THEN ThrowStage(PcaParamsCtx, <<Msg("missing or malformed entry")>>)
       ELSE IF region.num_hvgs[1] <= 0
       THEN ThrowStage(PcaParamsCtx, <<Msg("number of HVGs must be positive in 'num_hvgs'")>>)
       ELSE pc' = "pca_num_pcs" /\ err' = err
    /\ StageFrame
    /\ UNCHANGED <<npcs, bmethod, obs_pcs, collected, sel, a, involved, stats>>

\* Lines 30-33: `num_pcs` is positive.
PcaReadNumPcs ==
    /\ pc = "pca_num_pcs"
    /\ reads' = reads \cup {<<"parameters", "num_pcs">>}
    /\ IF region.num_pcs = <<>>
       THEN /\ ThrowStage(PcaParamsCtx, <<Msg("missing or malformed entry")>>)
            /\ npcs' = npcs
       ELSE IF region.num_pcs[1] <= 0
       THEN /\ ThrowStage(PcaParamsCtx, <<Msg("number of PCs must be positive in 'num_pcs'")>>)
            /\ npcs' = region.num_pcs[1]
       ELSE /\ npcs' = region.num_pcs[1]
            /\ pc' = "pca_block_method"
            /\ err' = err
    /\ StageFrame
    /\ UNCHANGED <<bmethod, obs_pcs, collected, sel, a, involved, stats>>

\* check_block_method of misc.hpp: "" when the method is a known one.
BlockMethodError(method) ==
    IF method \in {"none", "regress", "mnn"} THEN ""
    ELSE "unrecognized value for 'block_method'"

\* Lines 35-41 and 101-107: `block_method` is read from version 1.1 on, and
\* validate_parameters returns.
PcaReadBlockMethod ==
    /\ pc = "pca_block_method"
    /\ IF version >= V1_1
       THEN /\ reads' = reads \cup {<<"parameters", "block_method">>}
            /\ IF region.block_method = <<>>
               THEN /\ ThrowStage(PcaParamsCtx, <<Msg("missing or malformed entry")>>)
                    /\ bmethod' = bmethod
               ELSE IF BlockMethodError(region.block_method[1]) # ""
               THEN /\ ThrowStage(PcaParamsCtx,
                                  <<Msg(BlockMethodError(region.block_method[1]))>>)
                    /\ bmethod' = region.block_method[1]
               ELSE /\ bmethod' = region.block_method[1]
                    /\ pc' = "pca_contents"
                    /\ err' = err
       ELSE /\ pc' = "pca_contents"
            /\ UNCHANGED <<reads, bmethod, err>>
    /\ StageFrame
    /\ UNCHANGED <<npcs, obs_pcs, collected, sel, a, involved, stats>>

\* A dataset opened with expected dimensions static_cast<size_t>(rows) and
\* static_cast<size_t>(cols): no stored shape equals a negative one.
ShapeIs(shape, rows, cols) == rows >= 0 /\ cols >= 0 /\ shape = <<rows, cols>>

\* check_pca_contents of misc.hpp: "" when `pcs` has num_cells rows and no more
\* columns than max_pcs and `var_exp` has one entry per column.
PcaContentsError(max_pcs, ncells) ==
    IF region.pcs = <<>> THEN "missing or malformed entry"
    ELSE IF ncells < 0 \/ region.pcs[1] # ncells
        THEN "number of rows in 'pcs' should be equal to the number of cells"
    ELSE IF region.pcs[2] > max_pcs
        THEN "number of columns in 'pcs' should be no greater than the number of PCs"
    ELSE IF region.var_exp # <<region.pcs[2]>>
        THEN "'var_exp' should have length equal to the number of PCs"
    ELSE ""

\* Line 47: check_pca_contents gives the observed number of PCs.
PcaCheckContents ==
    /\ pc = "pca_contents"
    /\ reads' = reads \cup {<<"results", "pcs">>, <<"results", "var_exp">>}
    /\ IF PcaContentsError(npcs, num_cells) # ""
       THEN /\ ThrowStage(PcaResultsCtx, <<Msg(PcaContentsError(npcs, num_cells))>>)
            /\ obs_pcs' = obs_pcs
       ELSE /\ obs_pcs' = region.pcs[2]
            /\ pc' = "pca_corrected"
            /\ err' = err
    /\ StageFrame
    /\ UNCHANGED <<npcs, bmethod, collected, sel, a, involved, stats>>

\* Lines 49-50 without the upper version bound.
CorrectedRequired_NoUpperBound == version >= V1_1 /\ bmethod = "mnn"

\* Lines 49-50: `corrected` is opened for MNN between versions 1.1 and 2.0.
CorrectedRequired == version >= V1_1 /\ version < V2_0 /\ bmethod = "mnn"

\* Lines 49-55 and 109-116: `corrected` has the dimensions of `pcs`, and
\* validate returns obs_pcs.
PcaCheckCorrected ==
    /\ pc = "pca_corrected"
    /\ IF CorrectedRequired
       THEN /\ reads' = reads \cup {<<"results", "corrected">>}
            /\ IF ShapeIs(region.corrected, num_cells, obs_pcs)
               THEN pc' = "done" /\ err' = err
               ELSE ThrowStage(PcaResultsCtx, <<Msg("missing or malformed entry")>>)
       ELSE /\ pc' = "done"
            /\ UNCHANGED <<reads, err>>
    /\ StageFrame
    /\ UNCHANGED <<npcs, bmethod, obs_pcs, collected, sel, a, involved, stats>>

\* =====================================================================
\* combine_embeddings::validate (combine_embeddings.hpp)
\* =====================================================================

\* Names a child of `weights` may have: the modalities and one other.
WeightNames == ModalityNames \cup {"other"}

\* What `weights` holds under a name: nothing, a float scalar, or an entry of
\* another kind.
WeightGroups ==
    {w \in [WeightNames -> {"absent", "float", "string"}] : w["other"] # "string"}

\* The container has no `combine_embeddings` group.
NoCombineRegion ==
    [present |-> FALSE, approximate |-> FALSE,
     weights |-> [n \in WeightNames |-> "absent"], combined |-> <<>>]

\* The entries of the `combine_embeddings` group.
CombineRegions ==
    {NoCombineRegion} \cup
    [present : {TRUE}, approximate : BOOLEAN, weights : WeightGroups, combined : Shapes]

\* A call of combine_embeddings::validate(handle, num_cells, modalities,
\* total_dims, version).
CombineInit ==
    /\ stage = "combine_embeddings"
    /\ version \in Versions
    /\ num_cells \in CellCounts
    /\ modalities \in ModalityLists
    /\ total_dims \in 1..2
    /\ region \in CombineRegions
    /\ num_features = <<>>
    /\ pc = "combine"
    /\ err = <<>>
    /\ NoInputsLocals
    /\ NoStageLocals

CombineParamsCtx == Msg("failed to retrieve parameters from 'combine_embeddings'")
CombineResultsCtx == Msg("failed to retrieve results from 'combine_embeddings'")

\* Line 87 with the boundary of version 1.2.
CombineSkipped_Before12 == version < V1_2

\* Line 87: nothing is validated before version 2.0.
CombineSkipped == version < V2_0

\* Lines 87-91: validate returns at once before version 2.0, else opens the
\* `combine_embeddings` group, outside any try block.
CombineEnter ==
    /\ pc = "combine"
    /\ IF CombineSkipped
       THEN /\ pc' = "done"
            /\ UNCHANGED <<reads, err>>
       ELSE /\ reads' = reads \cup {<<"combine_embeddings">>}
            /\ IF region.present
               THEN pc' = "combine_params" /\ err' = err
               ELSE pc' = "failed" /\ err' = <<Msg("missing or malformed entry")>>
    /\ StageFrame
    /\ UNCHANGED <<npcs, bmethod, obs_pcs, collected, sel, a, involved, stats>>

\* Number of children of `weights`.
NumWeights == Cardinality({n \in WeightNames : region.weights[n] # "absent"})

\* The declared modalities up to the first one without a float scalar in
\* `weights`: those the loop of lines 28-30 opens.
RECURSIVE WeightsOpened(_)
WeightsOpened(mods) ==
    IF mods = <<>> THEN {}
    ELSE IF region.weights[Head(mods)] # "float" THEN {Head(mods)}
    ELSE {Head(mods)} \cup WeightsOpened(Tail(mods))

\* Lines 27-31 looking for the first modality alone.
WeightsError_FirstOnly(mods) ==
    IF NumWeights = 0 THEN ""
    ELSE IF mods # <<>> /\ region.weights[Head(mods)] # "float"
        THEN "missing or malformed entry"
    ELSE ""

\* Lines 27-31: a non-empty `weights` holds a float scalar for each modality.
WeightsError(mods) ==
    IF NumWeights = 0 THEN ""
    ELSE IF \E k \in 1..Len(mods) : region.weights[mods[k]] # "float"
        THEN "missing or malformed entry"
    ELSE ""

\* Lines 22-34 and 93-97: validate_parameters.
CombineCheckParameters ==
    /\ pc = "combine_params"
    /\ IF ~region.approximate
       THEN /\ reads' = reads \cup {<<"parameters", "approximate">>}
            /\ ThrowStage(CombineParamsCtx, <<Msg("missing or malformed entry")>>)
       ELSE /\ reads' = reads \cup {<<"parameters", "approximate">>, <<"parameters", "weights">>}
                        \cup (IF NumWeights = 0 THEN {}
                              ELSE {<<"parameters", "weights", n>> : n \in WeightsOpened(modalities)})
            /\ IF WeightsError(modalities) # ""
               THEN ThrowStage(CombineParamsCtx, <<Msg(WeightsError(modalities))>>)
               ELSE pc' = "combine_results" /\ err' = err
    /\ StageFrame
    /\ UNCHANGED <<npcs, bmethod, obs_pcs, collected, sel, a, involved, stats>>

\* Line 39 asking for `combined` with a single modality too.
CombinedRequired_AnyModality == Len(modalities) >= 1

\* Line 39: `combined` is opened for more than one modality.
CombinedRequired == Len(modalities) > 1

\* Lines 36-45 and 99-105: validate_results, and validate returns.
CombineCheckResults ==
    /\ pc = "combine_results"
    /\ IF CombinedRequired
       THEN /\ reads' = reads \cup {<<"results", "combined">>}
            /\ IF ShapeIs(region.combined, num_cells, total_dims)
               THEN pc' = "done" /\ err' = err
               ELSE ThrowStage(CombineResultsCtx, <<Msg("missing or malformed entry")>>)
       ELSE /\ pc' = "done"
            /\ UNCHANGED <<reads, err>>
    /\ StageFrame
    /\ UNCHANGED <<npcs, bmethod, obs_pcs, collected, sel, a, involved, stats>>

\* ===================================================================
\* custom_selections::validate
\* ===================================================================

SelectionNames == {"x", "y"}
IndexValues == {-1, 0, 1}

\* The children of `parameters/selections`, in the order getObjnameByIdx
\* lists them (by name).
SelectionLists == {<<>>, <<"x">>, <<"y">>, <<"x", "y">>}

\* The container has no `custom_selections` group.
NoCustomRegion ==
    [present |-> FALSE, has_selections |-> FALSE, selections |-> <<>>,
     has_groups |-> FALSE, groups |-> {}]

\* The `custom_selections` group: the children of `parameters/selections`
\* and the names of the children of `results/markers` (before version 2.0) or
\* `results/per_selection`, each group possibly missing.  Index arrays and
\* statistics are drawn when read.
CustomRegions ==
    {NoCustomRegion} \cup
    {[present |-> TRUE, has_selections |-> hs, selections |-> sl,
      has_groups |-> hg, groups |-> gr] :
        hs \in BOOLEAN, sl \in SelectionLists, hg \in BOOLEAN, gr \in SUBSET SelectionNames}

\* The feature counts passed with `modalities`, one per modality.
FeatureCounts == {1, 2}

\* A call of custom_selections::validate(handle, num_cells, modalities,
\* num_features, version).  Line 163 reads num_features[0]: a caller of a
\* version before 2.0 passes at least one count.
CustomInit ==
    /\ stage = "custom_selections"
    /\ version \in Versions
    /\ num_cells \in CellCounts
    /\ modalities \in ModalityLists
    /\ num_features \in [1..Len(modalities) -> FeatureCounts]
    /\ version < V2_0 => Len(modalities) >= 1
    /\ region \in CustomRegions
    /\ total_dims = 0
    /\ pc = "custom"
    /\ err = <<>>
    /\ NoInputsLocals
    /\ NoStageLocals

CustomParamsCtx == Msg("failed to retrieve parameters from 'custom_selections'")
CustomResultsCtx == Msg("failed to retrieve results from 'custom_selections'")

\* Line 150: the `custom_selections` group is opened outside both try blocks.
CustomEnter ==
    /\ pc = "custom"
    /\ reads' = reads \cup {<<"custom_selections">>}
    /\ IF region.present
       THEN pc' = "custom_params" /\ err' = err
       ELSE pc' = "failed" /\ err' = <<Msg("missing or malformed entry")>>
    /\ StageFrame
    /\ UNCHANGED <<npcs, bmethod, obs_pcs, collected, sel, a, involved, stats>>

\* Lines 23-24: `parameters` and `selections` are opened.
CustomOpenSelections ==
    /\ pc = "custom_params"
    /\ reads' = reads \cup {<<"parameters">>, <<"parameters", "selections">>}
    /\ IF ~region.has_selections
       THEN ThrowStage(CustomParamsCtx, <<Msg("missing or malformed entry")>>)
       ELSE pc' = "custom_selection" /\ err' = err
    /\ sel' = 1
    /\ StageFrame
    /\ UNCHANGED <<npcs, bmethod, obs_pcs, collected, a, involved, stats>>

\* Lines 27-31 and 39: the name of the next child is pushed and its indices
\* are loaded, with no try block around the load; after the last child the
\* names are returned.
CustomLoadSelection ==
    /\ pc = "custom_selection"
    /\ IF sel > Len(region.selections)
       THEN /\ pc' = "custom_results"
            /\ UNCHANGED <<reads, collected, involved, err>>
       ELSE /\ collected' = Append(collected, region.selections[sel])
            /\ reads' = reads \cup {<<"parameters", "selections", region.selections[sel]>>}
            /\ \E loaded \in BOOLEAN :
                IF loaded
                THEN /\ involved' \in SeqsUpTo(IndexValues, 2)
                     /\ pc' = "custom_range"
                     /\ err' = err
                ELSE /\ involved' = involved
                     /\ ThrowStage(CustomParamsCtx, <<Msg("missing or malformed entry")>>)
    /\ StageFrame
    /\ UNCHANGED <<npcs, bmethod, obs_pcs, sel, a, stats>>

\* Line 33 with the upper limit included.
OutOfRange_Inclusive(index) == index < 0 \/ index > num_cells

\* Line 33: i < 0 || i >= num_cells.
OutOfRange(index) == index < 0 \/ index >= num_cells

RangeFrame(selection) == Frame("indices out of range for selection", selection)

\* Lines 32-36: every index of the loaded selection is in range.
CustomCheckRange ==
    /\ pc = "custom_range"
    /\ IF \E k \in 1..Len(involved) : OutOfRange(involved[k])
       THEN /\ ThrowStage(CustomParamsCtx, <<RangeFrame(collected[Len(collected)])>>)
            /\ UNCHANGED <<sel, involved>>
       ELSE /\ pc' = "custom_selection"
            /\ err' = err
            /\ sel' = sel + 1
            /\ involved' = <<>>
    /\ StageFrame
    /\ UNCHANGED <<reads, npcs, bmethod, obs_pcs, collected, a, stats>>

\* Line 160 choosing the layout one version later.
MultiModalLayout_After20 == version > V2_0

\* Line 160: the layout of the results.
MultiModalLayout == version >= V2_0

\* Lines 53 and 71: the group holding one child per selection.
LayoutGroup == IF MultiModalLayout THEN "per_selection" ELSE "markers"

CountFrame == Frame("number of groups is not consistent with the expected number of selections",
                    LayoutGroup)

\* Lines 54-56 and 72-74 comparing with one selection more.
GroupCountDiffers_OneMore == Cardinality(region.groups) # Len(collected) + 1

\* Lines 54-56 and 72-74: mhandle.getNumObjs() != selections.size().
GroupCountDiffers == Cardinality(region.groups) # Len(collected)

\* Lines 52-56 and 70-74: `results` and its group of selections are opened
\* and the number of children is compared.
CustomOpenResults ==
    /\ pc = "custom_results"
    /\ reads' = reads \cup {<<"results">>, <<"results", LayoutGroup>>}
    /\ IF ~region.has_groups
       THEN ThrowStage(CustomResultsCtx, <<Msg("missing or malformed entry")>>)
       ELSE IF GroupCountDiffers
       THEN ThrowStage(CustomResultsCtx, <<CountFrame>>)
       ELSE pc' = "custom_group" /\ err' = err
    /\ sel' = 1
    /\ StageFrame
    /\ UNCHANGED <<npcs, bmethod, obs_pcs, collected, a, involved, stats>>

SelectionFrame(selection) ==
    Frame(IF MultiModalLayout
          THEN "failed to retrieve statistics for selection in 'results/per_selection'"
          ELSE "failed to retrieve statistics for selection in 'results/markers'",
          selection)

ModalityFrame(modality) == Frame("failed to retrieve statistics for modality", modality)

\* Lines 58-60, 76-78 and 169: the group named after the next selection is opened;
\* after the last selection validate returns.
CustomOpenGroup ==
    /\ pc = "custom_group"
    /\ IF sel > Len(collected)
       THEN /\ pc' = "done"
            /\ UNCHANGED <<reads, err>>
       ELSE /\ reads' = reads \cup {<<"results", LayoutGroup, collected[sel]>>}
            /\ IF collected[sel] \notin region.groups
               THEN ThrowStage(CustomResultsCtx,
                        <<SelectionFrame(collected[sel]), Msg("missing or malformed entry")>>)
               ELSE /\ pc' = IF MultiModalLayout THEN "custom_modality" ELSE "custom_markers"
                    /\ err' = err
    /\ a' = 1
    /\ StageFrame
    /\ UNCHANGED <<npcs, bmethod, obs_pcs, collected, sel, involved, stats>>

\* markers::effects.
Effects == <<"lfc", "delta_detected", "cohen", "auc">>

\* Lines 44-48 without the effect sizes.
StatisticSet_NoEffects == <<"means", "detected">>

\* Lines 44-48: the datasets validate_custom_markers opens, in order.
StatisticSet == <<"means", "detected">> \o Effects

\* Length of a stored statistic; -1 when it is missing or no float vector.
StatLengths == {-1, 1, 2}

\* A statistic that check_and_open_dataset refuses for the dimensions of
\* line 43, static_cast<size_t>(num_features).
BadStatistic(len, count) == len < 0 \/ SizeDiffers(len, count)

\* Position of the first statistic refused, 0 when none is.
FirstBad(lens, count) ==
    IF \E k \in 1..Len(StatisticSet) : BadStatistic(lens[k], count)
    THEN CHOOSE k \in 1..Len(StatisticSet) :
            /\ BadStatistic(lens[k], count)
            /\ \A j \in 1..(k - 1) : ~BadStatistic(lens[j], count)
    ELSE 0

\* The lengths a group of statistics is drawn from.  validate_custom_markers
\* throws at the first statistic it refuses, whatever follows it: the
\* statistics after that one are drawn as length 1.
StatChoices(count) ==
    {lens \in [1..6 -> StatLengths] :
        \A k \in 2..6 :
            (\E j \in 1..(k - 1) : BadStatistic(lens[j], count)) => lens[k] = 1}

\* The statistics validate_custom_markers opens under `path`.
StatsOpened(path, lens, count) ==
    {Append(path, StatisticSet[k]) :
        k \in {j \in 1..Len(StatisticSet) :
                FirstBad(lens, count) = 0 \/ j <= FirstBad(lens, count)}}

\* Lines 58-65: before version 2.0 the group of a selection holds the
\* statistics of num_features[0] features.
CustomCheckMarkers ==
    /\ pc = "custom_markers"
    /\ \E lens \in StatChoices(num_features[1]) :
        /\ stats' = lens
        /\ reads' = reads \cup
                StatsOpened(<<"results", LayoutGroup, collected[sel]>>, lens, num_features[1])
        /\ IF FirstBad(lens, num_features[1]) # 0
           THEN /\ ThrowStage(CustomResultsCtx,
                        <<SelectionFrame(collected[sel]), Msg("missing or malformed entry")>>)
                /\ sel' = sel
           ELSE /\ pc' = "custom_group"
                /\ err' = err
                /\ sel' = sel + 1
    /\ StageFrame
    /\ UNCHANGED <<npcs, bmethod, obs_pcs, collected, a, involved>>

\* Lines 79-86: from version 2.0 on the group of a selection holds one group
\* per modality, with the statistics of num_features[a] features.
CustomCheckModality ==
    /\ pc = "custom_modality"
    /\ IF a > Len(modalities)
       THEN /\ pc' = "custom_group"
            /\ sel' = sel + 1
            /\ UNCHANGED <<reads, err, a, stats>>
       ELSE \E opened \in BOOLEAN :
            \E lens \in (IF opened THEN StatChoices(num_features[a]) ELSE {<<>>}) :
                /\ stats' = lens
                /\ reads' = reads
                    \cup {<<"results", LayoutGroup, collected[sel], modalities[a]>>}
                    \cup (IF opened
                          THEN StatsOpened(<<"results", LayoutGroup, collected[sel], modalities[a]>>,
                                           lens, num_features[a])
                          ELSE {})
                /\ sel' = sel
                /\ IF ~opened \/ FirstBad(lens, num_features[a]) # 0
                   THEN /\ ThrowStage(CustomResultsCtx,
                                <<SelectionFrame(collected[sel]), ModalityFrame(modalities[a]),
                                  Msg("missing or malformed entry")>>)
                        /\ a' = a
                   ELSE /\ pc' = "custom_modality"
                        /\ err' = err
                        /\ a' = a + 1
    /\ StageFrame
    /\ UNCHANGED <<npcs, bmethod, obs_pcs, collected, involved>>

Next ==
    \/ ReadFormat
    \/ OpenFiles
    \/ LoadSampleGroups
    \/ CheckSampleNames
    \/ EndSampleBlock
    \/ ReadFile
    \/ CheckRunTypes
    \/ CheckBytes
    \/ CheckSampleFactor
    \/ ReturnParams
    \/ ReadDimensions
    \/ ReadNumFeatures
    \/ CheckNumSamples
    \/ CheckIdentities
    \/ EndIdentities
    \/ ReturnDetails
    \/ PcaReadNumHvgs
    \/ PcaReadNumPcs
    \/ PcaReadBlockMethod
    \/ PcaCheckContents
    \/ PcaCheckCorrected
    \/ CombineEnter
    \/ CombineCheckParameters
    \/ CombineCheckResults
    \/ CustomEnter
    \/ CustomOpenSelections
    \/ CustomLoadSelection
    \/ CustomCheckRange
    \/ CustomOpenResults
    \/ CustomOpenGroup
    \/ CustomCheckMarkers
    \/ CustomCheckModality

Init ==
    \/ InputsInit
    \/ PcaInit
    \/ CombineInit
    \/ CustomInit

Spec == Init /\ [][Next]_vars

\* ===================================================================
\* Properties of inputs::validate_parameters
\* ===================================================================

IsPrefix(p, q) == Len(p) <= Len(q) /\ \A i \in 1..Len(p) : p[i] = q[i]

ContiguityError ==
    <<ParamsCtx, Msg("offsets and sizes of 'files' are not sorted and contiguous")>>

\* No entry of `files` was found missing or malformed.
EntriesPresent == Len(err) # 3

\* `names` holds S.sample_names, or is empty because it is not loaded yet or
\* its block has ended (and not because an empty array was loaded).
NamesFrom(S) ==
    \/ names = S.sample_names
    \/ /\ names = <<>>
       /\ err # <<ParamsCtx, Msg("'sample_names' and 'format' should have the same length")>>

\* What validate_parameters has read so far is what container S holds:
\* S.format, S.sample_groups, S.sample_names, and one (offset, size) per file.
ReadsFrom(S) ==
    /\ version = 2001000
    /\ embedded
    /\ ndims = 1
    /\ formats = S.format
    /\ nfiles = Len(S.bytes)
    /\ runs = S.sample_groups
    /\ NamesFrom(S)
    /\ IsPrefix(bytes, S.bytes)
    /\ EntriesPresent

\* The file types of the current run are those S gives the files at its positions.
TypesFrom(S) ==
    \A i \in 1..Len(types) : types[i] = S.types[sofar - Len(types) + i]

\* The scan of the byte ranges has run.
BytesChecked == pc \notin {"sample_names", "names_checked", "file"}

EndToEnd ==
    [format |-> <<"10X", "10X">>, sample_groups |-> <<2, 1>>,
     sample_names |-> <<"a", "b">>,
     bytes |-> << <<0, 100>>, <<100, 200>>, <<300, 50>> >>,
     types |-> <<"mtx", "genes", "h5">>]

EndToEndShifted == [EndToEnd EXCEPT !.bytes[3] = <<301, 50>>]

EndToEndMM == [EndToEnd EXCEPT !.format = <<"MatrixMarket", "10X">>]

EndToEndMMShifted == [EndToEndMM EXCEPT !.bytes[3] = <<301, 50>>]

\* C1 with the formats of the specification's scenario: at version 2001000 with embedded files, the container with
\* format ["10X","10X"], sample_groups [2,1], sample_names ["a","b"], sizes
\* [100,200,50] and offsets [0,100,300] passes the parameters phase, and with
\* the third offset 301 it fails with the contiguity error.
C1_EndToEnd_AsStated ==
    /\ ReadsFrom(EndToEnd) => pc # "failed"
    /\ ReadsFrom(EndToEndShifted) /\ BytesChecked =>
            pc = "failed" /\ err = ContiguityError

\* C1 with formats whose runs pass the type-set check: the container with format ["MatrixMarket","10X"] and file
\* types [mtx, genes, h5] passes the parameters phase; with the third offset
\* 301 it fails, and only with the contiguity error.
C1_EndToEnd ==
    /\ ReadsFrom(EndToEndMM) /\ TypesFrom(EndToEndMM) => pc # "failed"
    /\ ReadsFrom(EndToEndMMShifted) /\ TypesFrom(EndToEndMMShifted) =>
            /\ pc = "failed" => err = ContiguityError
            /\ BytesChecked => pc = "failed"

\* The amended container has been read to its end and validate_parameters returns.
C1_Witness ==
    /\ ReadsFrom(EndToEndMM)
    /\ Len(bytes) = 3
    /\ pc = "params_return"

\* validate is inside validate_parameters, or has failed there.
InParameters ==
    \/ pc \in {"format", "files", "sample_groups", "sample_names", "names_checked",
               "file", "sample_factor", "params_return"}
    \/ pc = "failed" /\ err[1] = ParamsCtx

FormatError == <<ParamsCtx, Msg("'format' should be a scalar string in version 1.0")>>

RECURSIVE SumFirst(_, _)
SumFirst(s, k) == IF k = 0 THEN 0 ELSE SumFirst(s, k - 1) + s[k]

PairwiseDistinct(s) == \A i, j \in 1..Len(s) : i # j => s[i] # s[j]

\* C3: a multi-matrix input gets past the sample checks only if sample_groups,
\* format and sample_names have one length, sample_groups sums to the child
\* count of `files`, and no sample name repeats.
C3_MultiMatrix ==
    multi_matrix =>
        /\ pc \in {"sample_names", "names_checked", "file", "sample_factor", "params_return"} =>
                /\ Len(runs) = Len(formats)
                /\ SumFirst(runs, Len(runs)) = nfiles
        /\ pc = "names_checked" =>
                /\ Len(names) = Len(formats)
                /\ PairwiseDistinct(names)
        /\ pc \in {"file", "sample_factor", "params_return"} => names = <<>>

\* Two matrices of two and one files passed the sample checks.
C3_Witness ==
    /\ pc = "names_checked"
    /\ multi_matrix
    /\ runs = <<2, 1>>
    /\ Len(names) = 2

\* offset_0 = 0 and offset_{k+1} = offset_k + size_k, in file order.
ContiguousFromZero(b) ==
    /\ b # <<>> => b[1][1] = 0
    /\ \A k \in 1..(Len(b) - 1) : b[k + 1][1] = b[k][1] + b[k][2]

\* C4: with embedded files validation gets past the byte-range scan only if the
\* (offset, size) pairs, in file order, start at 0 and each starts where the one
\* before it ends; without embedded files no pair is read and no scan fails.
C4_Contiguity ==
    /\ embedded /\ pc \in {"sample_factor", "params_return"} =>
            /\ Len(bytes) = sofar
            /\ ContiguousFromZero(bytes)
    /\ embedded /\ pc = "failed" /\ err = ContiguityError => ~ContiguousFromZero(bytes)
    /\ ~embedded => bytes = <<>> /\ err # ContiguityError

\* Three embedded files passed the scan.
C4_Witness ==
    /\ embedded
    /\ pc = "params_return"
    /\ Len(bytes) = 3

\* The type-set check of the current run is the next step.
AtTypeCheck == pc = "file" /\ r <= Len(runs) /\ ~(Len(types) < runs[r])

\* The check accepted the run: the loop moves to the next run.
RunAccepted == pc' = "file" /\ r' = r + 1 /\ err' = err

\* The check rejected the run with one of `messages`.
RunRejected(messages) ==
    /\ pc' = "failed"
    /\ Len(err') = 2
    /\ err'[1] = ParamsCtx
    /\ err'[2].ctx \in messages

Occurrences(ty, t) == {i \in 1..Len(ty) : ty[i] = t}

AtMostOne(S) == \A i, j \in S : i = j

ExactlyOne(S) == S # {} /\ AtMostOne(S)

ValidMatrixMarket(ty) ==
    /\ \A i \in 1..Len(ty) : ty[i] \in {"mtx", "genes", "annotations"}
    /\ ExactlyOne(Occurrences(ty, "mtx"))
    /\ AtMostOne(Occurrences(ty, "genes"))
    /\ AtMostOne(Occurrences(ty, "annotations"))

MatrixMarketErrors ==
    {"unknown file type when format is 'MatrixMarket'",
     "expected exactly one 'mtx' file when format is 'MatrixMarket'",
     "expected no more than one 'genes' file when format is 'MatrixMarket'",
     "expected no more than one 'annotation' file when format is 'MatrixMarket'"}

\* C5: the type-set check of a "MatrixMarket" run accepts it exactly when every
\* type is mtx, genes or annotations, mtx occurs once, and genes and
\* annotations at most once each; a run of zero files is rejected.
C5_MatrixMarket ==
    [][AtTypeCheck /\ formats[r] = "MatrixMarket" =>
            /\ ValidMatrixMarket(types) => RunAccepted
            /\ ~ValidMatrixMarket(types) => RunRejected(MatrixMarketErrors)
            /\ types = <<>> => pc' = "failed"]_vars

\* A MatrixMarket run of three files was accepted.
C5_Witness ==
    /\ pc = "file"
    /\ r = 2
    /\ types = <<>>
    /\ formats[1] = "MatrixMarket"
    /\ runs[1] = 3

OneH5(ty) == Len(ty) = 1 /\ ty[1] = "h5"

\* C6: the type-set check of a "10X" or "H5AD" run accepts it exactly when it
\* is one file of type h5; a run of any format other than these and
\* "MatrixMarket" is accepted whatever its files.
C6_H5Formats ==
    [][AtTypeCheck =>
            /\ formats[r] \in {"10X", "H5AD"} /\ OneH5(types) => RunAccepted
            /\ formats[r] = "10X" /\ ~OneH5(types) =>
                    RunRejected({"expected exactly one 'h5' file when format is '10X'"})
            /\ formats[r] = "H5AD" /\ ~OneH5(types) =>
                    RunRejected({"expected exactly one 'h5' file when format is 'H5AD'"})
            /\ formats[r] \notin {"MatrixMarket", "10X", "H5AD"} => RunAccepted]_vars

\* An H5AD run of one h5 file was accepted after a run of another format that
\* held two files.
C6_Witness ==
    /\ pc = "file"
    /\ r = 3
    /\ formats[1] \notin {"MatrixMarket", "10X", "H5AD"}
    /\ runs[1] = 2
    /\ formats[2] = "H5AD"
    /\ runs[2] = 1

\* ===================================================================
\* Properties of inputs::validate_results
\* ===================================================================

\* inputs::validate has returned its Details.
InputsDone == stage = "inputs" /\ pc = "done"

\* The load of a row-identity array failed: the container holds none by that name.
IdentityMissing ==
    /\ pc = "failed"
    /\ Len(err) = 2
    /\ err[2].ctx = "missing or malformed entry"

\* A row-identity array was loaded and rejected.
IdentityRejected == pc = "failed" /\ idname # "" /\ ~IdentityMissing

\* A row-identity array was loaded and accepted.
IdentityAccepted == pc = "identities_checked"

\* s has length n and is a bijection on [0, n).
IsPermutation(s, n) ==
    /\ Len(s) = n
    /\ \A i \in 1..Len(s) : 0 <= s[i] /\ s[i] < Len(s)
    /\ PairwiseDistinct(s)
    /\ \A k \in 0..(Len(s) - 1) : \E i \in 1..Len(s) : s[i] = k

IsIdentities(s, n) ==
    /\ Len(s) = n
    /\ \A i \in 1..Len(s) : s[i] >= 0
    /\ PairwiseDistinct(s)

\* C8: from version 2000000 each modality under `num_features` has its array
\* in `identities`, accepted exactly when its length is that modality's
\* feature count and its values are distinct and non-negative, whatever their
\* size; from 1002000 to 2000000 the same holds of the one array `identities`
\* and the first modality.
C8_Identities ==
    /\ version >= 2000000 =>
        /\ IdentityAccepted =>
                idname = modalities[m] /\ IsIdentities(idx, num_features[m])
        /\ IdentityRejected =>
                idname = modalities[m] /\ ~IsIdentities(idx, num_features[m])
        /\ InputsDone => m = Len(modalities) + 1
    /\ 1002000 <= version /\ version < 2000000 =>
        /\ IdentityAccepted =>
                idname = "identities" /\ IsIdentities(idx, num_features[1])
        /\ IdentityRejected =>
                idname = "identities" /\ ~IsIdentities(idx, num_features[1])
        /\ InputsDone => m = 2

\* The second modality's array was accepted with a value above its length.
C8_Witness ==
    /\ version >= 2000000
    /\ IdentityAccepted
    /\ m = 2
    /\ idx = <<2, 0>>

NumSamplesErrors ==
    {"'num_samples' should be equal to the number of matrices",
     "'num_samples' should be 1 for single matrix inputs without 'sample_factor'"}

\* The sample count was read and rejected.
NumSamplesRejected ==
    /\ pc = "failed"
    /\ Len(err) = 2
    /\ err[2].ctx \in NumSamplesErrors

\* The sample count was read and accepted.
NumSamplesAccepted == pc \in {"identities", "identities_checked"} \/ InputsDone

SamplesAgree ==
    /\ multi_matrix => num_samples = num_matrices
    /\ ~multi_matrix /\ ~multi_sample => num_samples = 1

\* C9: num_samples is the stored scalar, or 1 when none is stored; it is
\* accepted exactly when it is the number of matrices of a multi-matrix input,
\* or 1 for a single matrix without `sample_factor`; for a single matrix with
\* `sample_factor` every value is accepted.
C9_NumSamples ==
    /\ NumSamplesAccepted \/ NumSamplesRejected =>
            num_samples = IF stored_samples = <<>> THEN 1 ELSE stored_samples[1]
    /\ NumSamplesAccepted => SamplesAgree
    /\ NumSamplesRejected => ~SamplesAgree
    /\ pc \in {"files", "sample_groups", "sample_names", "names_checked", "file",
               "sample_factor", "params_return"} => num_matrices = Len(formats)
    /\ pc \in {"params_return", "results"} /\ multi_matrix => multi_sample

\* A single matrix with `sample_factor` was validated with two samples stored.
C9_Witness ==
    /\ InputsDone
    /\ ~multi_matrix
    /\ multi_sample
    /\ stored_samples = <<2>>
    /\ num_samples = 2

\* C10: the Details of a successful validate have pairwise distinct modalities,
\* one num_features entry per modality, num_cells >= 0 and num_samples >= 1.
C10_Details ==
    InputsDone =>
        /\ PairwiseDistinct(modalities)
        /\ Len(num_features) = Len(modalities)
        /\ num_cells >= 0
        /\ num_samples >= 1

\* ===================================================================
\* Properties of pca::validate
\* ===================================================================

\* pca::validate has returned the observed number of PCs.
PcaDone == stage = "pca" /\ pc = "done"

MnnWithCorrection == bmethod = "mnn" /\ 1001000 <= version /\ version < 2000000

InCombine == stage = "combine_embeddings"

CombinedPresent == ShapeIs(region.combined, num_cells, total_dims)

\* The check of `combined` is the next step.
AtCombinedCheck == InCombine /\ pc = "combine_results"

WeightsJudged ==
    /\ InCombine
    /\ <<"parameters", "weights">> \in reads
    /\ pc # "combine_params"

WeightsAccepted ==
    /\ WeightsJudged
    /\ \/ pc \in {"combine_results", "done"}
       \/ pc = "failed" /\ err[1] = CombineResultsCtx

Declared == {modalities[k] : k \in 1..Len(modalities)}

WeightChildren == {n \in WeightNames : region.weights[n] # "absent"}

EveryDeclaredWeight == \A n \in Declared : region.weights[n] = "float"

\* C13 with the children of `weights` being precisely the declared
\* modalities: `weights` is accepted exactly when it is empty, or its
\* children are the declared modalities, each a float scalar.
C13_Weights_Precisely ==
    WeightsJudged =>
        (WeightsAccepted <=>
            \/ WeightChildren = {}
            \/ WeightChildren = Declared /\ EveryDeclaredWeight)

\* C13 with further children allowed: `weights` is accepted exactly when it is
\* empty, or holds a float scalar named after every declared modality; a group
\* with a scalar for only some of the declared modalities is rejected, and
\* children named after no declared modality are never opened.
C13_Weights ==
    /\ [](WeightsJudged =>
            (WeightsAccepted <=> (WeightChildren = {} \/ EveryDeclaredWeight)))
    /\ [](InCombine =>
            \A n \in WeightNames :
                <<"parameters", "weights", n>> \in reads => n \in Declared)

\* Both modalities are declared and `weights` holds a scalar for each, and one more.
C13_Witness ==
    /\ WeightsAccepted
    /\ Len(modalities) = 2
    /\ WeightChildren = WeightNames

\* ===================================================================
\* Properties of custom_selections::validate
\* ===================================================================

InCustom == stage = "custom_selections"
CustomDone == InCustom /\ pc = "done"

SixStatistics == {"means", "detected", "lfc", "delta_detected", "cohen", "auc"}

\* validate_custom_markers accepted the statistics of the flat group of a selection.
FlatGroupAccepted == pc = "custom_markers" /\ pc' # "failed"

\* validate_custom_markers accepted the statistics of a modality of a selection.
ModalityGroupAccepted == pc = "custom_modality" /\ a <= Len(modalities) /\ pc' # "failed"

\* C14: validation of the results of custom_selections succeeds only if there
\* is one result group per declared selection, in the layout the version
\* chooses: before version 2000000 `markers/<selection>` holds the six
\* statistics, each of length num_features[0]; from 2000000 on
\* `per_selection/<selection>` holds one child per modality, each with the six
\* statistics of the length of that modality's feature count.
C14_Results ==
    /\ [](CustomDone =>
            /\ region.has_groups
            /\ Cardinality(region.groups) = Len(collected)
            /\ \A k \in 1..Len(collected) :
                /\ collected[k] \in region.groups
                /\ IF version < 2000000
                   THEN \A stat \in SixStatistics :
                            <<"results", "markers", collected[k], stat>> \in reads
                   ELSE \A j \in 1..Len(modalities) : \A stat \in SixStatistics :
                            <<"results", "per_selection", collected[k], modalities[j], stat>>
                                \in reads)
    /\ [][FlatGroupAccepted =>
            /\ version < 2000000
            /\ Len(stats') = 6
            /\ \A k \in 1..6 : stats'[k] = num_features[1]]_vars
    /\ [][ModalityGroupAccepted =>
            /\ version >= 2000000
            /\ Len(stats') = 6
            /\ \A k \in 1..6 : stats'[k] = num_features[a]]_vars

\* Two selections and two modalities of different feature counts were accepted.
C14_Witness ==
    /\ CustomDone
    /\ version >= 2000000
    /\ Len(collected) = 2
    /\ Len(modalities) = 2
    /\ num_features[1] # num_features[2]

\* validate_parameters of custom_selections returned its list of names.
CustomParamsReturned ==
    /\ InCustom
    /\ \/ pc \in {"custom_results", "custom_group", "custom_markers", "custom_modality", "done"}
       \/ pc = "failed" /\ Len(err) >= 1 /\ err[1] = CustomResultsCtx

InCellRange(index) == 0 <= index /\ index < num_cells

\* C15: validation of the parameters of custom_selections succeeds only if
\* every index of every selection is in [0, num_cells); one index out of that
\* range in any selection makes it fail; on success the names returned are
\* the names of the children of `selections` in enumeration order.
C15_Selections ==
    /\ [](CustomParamsReturned => collected = region.selections /\ involved = <<>>)
    /\ [][pc = "custom_range" =>
            IF \A k \in 1..Len(involved) : InCellRange(involved[k])
            THEN pc' = "custom_selection" /\ err' = <<>>
            ELSE pc' = "failed" /\ err'[1] = CustomParamsCtx]_vars

\* Two selections passed with a single cell: every index read was 0.
C15_Witness ==
    /\ InCustom
    /\ pc = "custom_results"
    /\ collected = <<"x", "y">>
    /\ num_cells = 1

\* ===================================================================
\* Properties of the error chain
\* ===================================================================

\* Some frame under the outermost one names the sub-structure.
NamesSubStructure(chain, name) == \E k \in 2..Len(chain) : chain[k].arg = name

\* The step is a fault raised while a validator checks one sub-structure.
FaultInFile ==
    /\ pc = "file" /\ r <= Len(runs) /\ Len(types) < runs[r]
    /\ pc' = "failed"
FaultInInputsModality ==
    /\ pc = "identities" /\ version >= 2000000 /\ m <= Len(modalities)
    /\ pc' = "failed"
FaultInSelectionParameters ==
    /\ \/ pc = "custom_selection" /\ sel <= Len(region.selections)
       \/ pc = "custom_range"
    /\ pc' = "failed"
FaultInSelectionResults ==
    /\ \/ pc = "custom_group" /\ sel <= Len(collected)
       \/ pc = "custom_markers"
       \/ pc = "custom_modality"
    /\ pc' = "failed"
FaultInCustomModality ==
    /\ pc = "custom_modality"
    /\ pc' = "failed"

\* C16: a fault raised while a validator checks one sub-structure (a file
\* entry in inputs, a selection in the parameters or results of
\* custom_selections, a modality in inputs or custom_selections) reaches the
\* caller with a frame naming that file, selection or modality under the
\* frame of the stage and phase.
C16_Context ==
    /\ [][FaultInFile =>
            err'[1] = ParamsCtx /\ NamesSubStructure(err', ToString(sofar))]_vars
    /\ [][FaultInInputsModality =>
            err'[1] = ResultsCtx /\ NamesSubStructure(err', modalities[m])]_vars
    /\ [][FaultInSelectionParameters =>
            err'[1] = CustomParamsCtx
            /\ NamesSubStructure(err', collected'[Len(collected')])]_vars
    /\ [][FaultInSelectionResults =>
            err'[1] = CustomResultsCtx /\ NamesSubStructure(err', collected[sel])]_vars
    /\ [][FaultInCustomModality =>
            err'[1] = CustomResultsCtx /\ NamesSubStructure(err', modalities[a])]_vars

\* ===================================================================
\* Properties of every validate
\* ===================================================================

ParameterSteps ==
    {"format", "files", "sample_groups", "sample_names", "names_checked", "file",
     "sample_factor", "params_return",
     "pca_num_hvgs", "pca_num_pcs", "pca_block_method",
     "combine_params",
     "custom_params", "custom_selection", "custom_range"}

ResultSteps ==
    {"results", "num_samples", "identities", "identities_checked",
     "pca_contents", "pca_corrected",
     "combine_results",
     "custom_results", "custom_group", "custom_markers", "custom_modality"}

ParameterFrames == {ParamsCtx, PcaParamsCtx, CombineParamsCtx, CustomParamsCtx}
ResultFrames == {ResultsCtx, PcaResultsCtx, CombineResultsCtx, CustomResultsCtx}

\* validate is in its parameters phase, or left it by an exception.
InParametersPhase ==
    \/ pc \in ParameterSteps
    \/ pc = "failed" /\ err # <<>> /\ err[1] \in ParameterFrames

\* Nothing under `results` has been opened or loaded.
NoResultsRead ==
    /\ \A entry \in reads : entry[1] # "results"
    /\ stage = "inputs" =>
        /\ modalities = <<>>
        /\ num_features = <<>>
        /\ stored_samples = <<>>
        /\ idname = ""
        /\ idx = <<>>
        /\ ~ihandle

\* C17: in every validate (inputs, pca, combine_embeddings,
\* custom_selections) the parameters phase is completed before any entry of
\* `results` is read; the first check violated ends the run with exactly one
\* error, no check is evaluated after it, and no result is returned from a
\* run in which a check failed.
C17_Phases ==
    /\ [](InParametersPhase => NoResultsRead)
    /\ []((pc = "failed") <=> (err # <<>>))
    /\ [][pc \notin {"failed", "done"}]_vars
    /\ [][err' # err => err = <<>> /\ pc' = "failed"]_vars
    /\ [][(pc \in ResultSteps) => pc' \in ResultSteps \cup {"done", "failed"}]_vars
    /\ [][pc' = "done" => pc \in ResultSteps \/ (pc = "combine" /\ version < 2000000)]_vars
    /\ [][pc' = "failed" /\ pc \in ParameterSteps => err'[1] \in ParameterFrames]_vars
    /\ [][pc' = "failed" /\ pc \in ResultSteps => err'[1] \in ResultFrames]_vars

\* The parameters of custom_selections passed and the statistics of a
\* modality of a selection were refused.
C17_Witness ==
    /\ InCustom
    /\ pc = "failed"
    /\ Len(err) = 4
    /\ err[1] = CustomResultsCtx
    /\ collected # <<>>

\* ===================================================================
\* Properties of inputs::validate across versions
\* ===================================================================

\* validate_results is about to load a row-identity array, and does.
IdentityLoad == stage = "inputs" /\ pc = "identities" /\ pc' # "done"

\* C18: across one call of inputs::validate the array `indices` is read only
\* when 1001000 <= version < 1002000 (it needs multi_matrix, which no version
\* below 1001000 sets); below 1001000 the row identities are always read from
\* `permutation`; and at every version exactly one of the group `identities`,
\* the array `identities`, `indices` and `permutation` is read.
C18_Legacy ==
    /\ [](stage = "inputs" =>
            /\ version < 1001000 => ~multi_matrix
            /\ idname = "indices" =>
                    1001000 <= version /\ version < 1002000 /\ multi_matrix /\ ~ihandle
            /\ idname = "permutation" => version < 1002000 /\ ~multi_matrix /\ ~ihandle
            /\ idname = "identities" =>
                    1002000 <= version /\ version < 2000000 /\ ~ihandle
            /\ idname \in ModalityNames => version >= 2000000 /\ ihandle
            /\ ihandle => version >= 2000000
            /\ version < 1001000 /\ idname # "" => idname = "permutation"
            /\ InputsDone =>
                    IF version >= 2000000 THEN ihandle /\ m = Len(modalities) + 1 ELSE m = 2)
    /\ [][IdentityLoad =>
            /\ idname' # ""
            /\ idname' \in {"identities", "indices", "permutation"} <=> version < 2000000
            /\ version < 2000000 => m = 1 /\ idname = ""]_vars

\* `indices` was read and accepted at the first version that stores it.
C18_Witness ==
    /\ stage = "inputs"
    /\ version = 1001000
    /\ pc = "identities_checked"
    /\ idname = "indices"

\* validate_parameters of inputs got through the loop over the runs.
FilesAccepted == stage = "inputs" /\ pc \in {"sample_factor", "params_return"}

\* A step of validate_parameters that opens a file entry.
FileOpened == stage = "inputs" /\ pc = "file" /\ sofar' # sofar

\* A step of validate_parameters that ends a run.
RunEnded == stage = "inputs" /\ pc = "file" /\ r' # r

\* The number of file entries the loop of line 123 opens for the first k
\* runs: a run of negative length opens none.
RECURSIVE FilesOfRuns(_, _)
FilesOfRuns(s, k) ==
    IF k = 0 THEN 0
    ELSE FilesOfRuns(s, k - 1) + (IF s[k] < 0 THEN 0 ELSE s[k])

\* C19: whenever validate_parameters of inputs succeeds, the file entries it
\* opened are those named "0" to "nfiles-1", each once and in increasing
\* order, so that every child of `files` was checked and belongs to exactly
\* one run; a `sample_groups` with a negative entry never validates, even
\* when its sum is nfiles.
C19_Files ==
    /\ [](stage = "inputs" /\ pc \in {"file", "sample_factor", "params_return"} =>
            /\ 0 <= sofar /\ sofar <= nfiles
            /\ r <= Len(runs) => sofar = FilesOfRuns(runs, r - 1) + Len(types))
    /\ [](FilesAccepted =>
            /\ sofar = nfiles
            /\ r = Len(runs) + 1
            /\ SumFirst(runs, Len(runs)) = nfiles
            /\ \A k \in 1..Len(runs) : runs[k] >= 0)
    /\ [][FileOpened =>
            /\ sofar < nfiles
            /\ sofar' = sofar + 1
            /\ r' = r
            /\ Len(types') = Len(types) + 1
            /\ Len(types) < runs[r]]_vars
    /\ [][RunEnded =>
            /\ r' = r + 1
            /\ sofar' = sofar
            /\ Len(types) = FilesOfRuns(runs, r) - FilesOfRuns(runs, r - 1)
            /\ sofar = FilesOfRuns(runs, r)]_vars

\* A negative entry of `sample_groups` passed the sum check of line 95.
NegativeRunSummed ==
    /\ stage = "inputs"
    /\ pc = "file"
    /\ \E k \in 1..Len(runs) : runs[k] < 0

\* Three file entries in two runs were accepted.
C19_Witness ==
    /\ FilesAccepted
    /\ nfiles = 3
    /\ Len(runs) = 2
    /\ sofar = 3

\* ===================================================================
\* Properties of combine_embeddings::validate before version 2.0
\* ===================================================================

\* C20: for every version below 2000000, combine_embeddings::validate returns
\* successfully without opening or reading any entry of the container,
\* whatever the container holds (no `combine_embeddings` group, or a
\* malformed one) and whatever modalities, num_cells and total_dims are passed.
C20_Skipped ==
    /\ [](InCombine /\ version < 2000000 =>
            /\ reads = {}
            /\ err = <<>>
            /\ pc \in {"combine", "done"})
    /\ [][InCombine /\ version < 2000000 => pc' = "done" /\ reads' = {}]_vars

\* Validation returned at version 1.2 for two modalities, a negative number of
\* cells and a container without the group.
C20_Witness ==
    /\ InCombine
    /\ version = 1002000
    /\ pc = "done"
    /\ ~region.present
    /\ Len(modalities) = 2
    /\ num_cells = -1

\* ===================================================================
\* Properties of custom_selections::validate across its two phases
\* ===================================================================

\* The names of the children of `parameters/selections`.
DeclaredSelections == {region.selections[k] : k \in 1..Len(region.selections)}

\* validate_results is about to open the group of a selection that has none.
ResultGroupMissing ==
    /\ InCustom
    /\ pc = "custom_group"
    /\ sel <= Len(collected)
    /\ collected[sel] \notin region.groups

\* validate_results is about to compare a number of result groups that is
\* not the number of declared selections.
ResultGroupsMiscounted ==
    /\ InCustom
    /\ pc = "custom_results"
    /\ region.has_groups
    /\ Cardinality(region.groups) # Cardinality(DeclaredSelections)

\* C21: whenever custom_selections::validate succeeds, the names of the
\* children of the results group (`markers` below version 2000000,
\* `per_selection` from it on) are the names of the selections declared under
\* `parameters/selections`: no declared selection lacks a result group and no
\* result group exists for an undeclared selection.
C21_Names ==
    /\ [](CustomDone =>
            /\ region.has_selections
            /\ region.has_groups
            /\ region.groups = DeclaredSelections
            /\ \A name \in DeclaredSelections :
                    <<"results", IF version < 2000000 THEN "markers" ELSE "per_selection",
                      name>> \in reads)
    /\ [][ResultGroupMissing \/ ResultGroupsMiscounted =>
            pc' = "failed" /\ err'[1] = CustomResultsCtx]_vars

\* Two selections were accepted in the layout of the versions before 2.0,
\* each with its group under `markers`.
C21_Witness ==
    /\ CustomDone
    /\ version < 2000000
    /\ DeclaredSelections = {"x", "y"}
    /\ region.groups = {"x", "y"}

\* One selection is declared and the one result group bears another name.
C21_Renamed ==
    /\ ResultGroupMissing
    /\ Cardinality(region.groups) = Len(collected)

====
